---- MODULE Spec2Model ----
(***************************************************************************)
(* The envoy client (envoy.c): one invocation of main(), from option       *)
(* parsing over the request to the supervisor to the dispatched action.    *)
(* The supervisor, the gpg-agent, the terminal, the passwd database and    *)
(* the filesystem are the environment: their answers are chosen with \E.   *)
(***************************************************************************)
EXTENDS Integers, Sequences, FiniteSets, TLC

(* ---------------------------- bounds ----------------------------------- *)
MaxOpts == 2
MaxKeys == 2
MaxFgpt == 2

(* ---------------------------- values ----------------------------------- *)
NULL == "NULL"

AGENT_SSH_AGENT == "AGENT_SSH_AGENT"
AGENT_GPG_AGENT == "AGENT_GPG_AGENT"
AGENT_DEFAULT   == "AGENT_DEFAULT"
LAST_AGENT      == AGENT_DEFAULT

ENVOY_STOPPED == "ENVOY_STOPPED"
ENVOY_STARTED == "ENVOY_STARTED"
ENVOY_RUNNING == "ENVOY_RUNNING"
ENVOY_FAILED  == "ENVOY_FAILED"
ENVOY_BADUSER == "ENVOY_BADUSER"

ACTION_FISH_PRINT == "ACTION_FISH_PRINT"
ACTION_SH_PRINT   == "ACTION_SH_PRINT"
ACTION_NONE       == "ACTION_NONE"
ACTION_FORCE_ADD  == "ACTION_FORCE_ADD"
ACTION_CLEAR      == "ACTION_CLEAR"
ACTION_KILL       == "ACTION_KILL"
ACTION_LIST       == "ACTION_LIST"
ACTION_UNLOCK     == "ACTION_UNLOCK"

EXIT_SUCCESS == 0
EXIT_FAILURE == 1
\* status the shell reports for a process killed by SIGSEGV
SEGV_STATUS  == 139

SIGHUP  == "SIGHUP"
SIGTERM == "SIGTERM"

\* c_lflag bits of a termios that matter here
ECHO   == "ECHO"
ICANON == "ICANON"
Termios == {{ECHO, ICANON}, {ICANON}}

\* what getopt_long can hand back: <<option character, optarg>>
Options ==
  { <<"h", NULL>>, <<"v", NULL>>, <<"a", NULL>>, <<"k", NULL>>, <<"K", NULL>>,
    <<"l", NULL>>, <<"u", NULL>>, <<"u", "hunter2">>, <<"p", NULL>>,
    <<"f", NULL>>, <<"t", "ssh-agent">>, <<"t", "gpg-agent">>,
    <<"t", "bogus">>, <<"?", NULL>> }

KeyNames     == {"id_rsa", "extra_key"}
Pids         == {4321, 9000}
Socks        == {"/run/user/1000/ssh-XXXX/agent.4320"}
GpgInfo      == "/run/user/1000/gnupg/S.gpg-agent:1234:1"
Fingerprints == {"AAAA", "BBBB"}
PwDir        == "/home/alice"
InheritedSock == "inherited"

RECURSIVE SeqsUpTo(_, _)
SeqsUpTo(S, n) ==
  IF n = 0 THEN {<<>>}
  ELSE LET shorter == SeqsUpTo(S, n - 1)
       IN  shorter \cup {Append(s, x) : s \in {t \in shorter : Len(t) = n - 1}, x \in S}

Distinct(s) == \A i, j \in 1..Len(s) : i # j => s[i] # s[j]

VARIABLES
  pc,           \* where main() is
  opt,          \* main: the last value getopt_long returned
  nopts,        \* number of options parsed so far
  verb,         \* main: enum action verb
  source,       \* main: bool source
  type,         \* main: enum agent type
  password,     \* main: char *password (NULL, from optarg, or typed)
  keys,         \* argv[optind .. argc-1]
  request,      \* what was sent to the supervisor
  data,         \* main: struct agent_data_t data (the reply)
  env,          \* SSH_AUTH_SOCK in the client's environment
  stdout,       \* what was written to stdout
  stderr,       \* diagnostics written to stderr
  signals,      \* kill() calls made: <<pid, signal>>
  exec,         \* the exec call made, or NULL
  fs,           \* key names access(F_OK) found when keys were resolved
  agent,        \* unlock: struct gpg_t *agent
  connAttempts, \* gpg_agent_connection calls
  openConns,    \* gpg-agent connections currently open
  assuan,       \* Assuan commands sent
  fingerprints, \* the list gpg_keyinfo returned
  fgpt,         \* unlock: the rest of the list
  results,      \* result of each PRESET_PASSPHRASE sent, in order
  unlockRet,    \* value returned by unlock()
  termios,      \* the terminal's attributes
  old_termios,  \* static struct termios old_termios
  ttyWrites,    \* number of tcsetattr calls made
  hooks,        \* functions registered with atexit
  exitStatus    \* the process exit status

vars == << pc, opt, nopts, verb, source, type, password, keys, request, data,
           env, stdout, stderr, signals, exec, fs, agent, connAttempts,
           openConns, assuan, fingerprints, fgpt, results, unlockRet,
           termios, old_termios, ttyWrites, hooks, exitStatus >>

parseVars  == << opt, nopts, verb, source, type, password, keys >>
gpgVars    == << agent, connAttempts, openConns, assuan, fingerprints, fgpt,
                 results, unlockRet >>
ttyVars    == << termios, old_termios, ttyWrites, hooks >>
outVars    == << stdout, stderr >>

NoRequest == [kind |-> "none", start |-> FALSE, sent |-> FALSE]
NoData    == [pid |-> 0, type |-> "none", status |-> "none", sock |-> "", gpg |-> ""]
NoExec    == [file |-> NULL, argv |-> <<>>, ok |-> FALSE]
NoStatus  == -1

Final == {"exited", "crashed", "execd"}

(* --------------------------- helpers ----------------------------------- *)

\* term_cleanup: what the exit hook writes to the terminal
term_cleanup == old_termios

\* an exit that runs term_cleanup whether or not it was registered
ExitAlwaysCleans(code, hk, cur, writes) ==
  /\ pc' = "exited"
  /\ exitStatus' = code
  /\ termios' = old_termios'
  /\ ttyWrites' = writes + 1

\* exit(code), also return from main: the atexit hooks run, then the process ends
Exit(code, hk, cur, writes) ==
  /\ pc' = "exited"
  /\ exitStatus' = code
  /\ termios' = IF "term_cleanup" \in hk THEN term_cleanup' ELSE cur
  /\ ttyWrites' = IF "term_cleanup" \in hk THEN writes + 1 ELSE writes

\* exit from a place that does not itself touch the terminal
ExitPlain(code) ==
  /\ UNCHANGED << old_termios, hooks >>
  /\ Exit(code, hooks, termios, ttyWrites)

\* lookup_agent: scan of the registry, LAST_AGENT when the name is not found
lookup_agent(name) ==
  CASE name = "ssh-agent" -> AGENT_SSH_AGENT
    [] name = "gpg-agent" -> AGENT_GPG_AGENT
    [] OTHER              -> LAST_AGENT

Init ==
  /\ pc = "getopt"
  /\ opt = NULL
  /\ nopts = 0
  /\ verb = ACTION_NONE
  /\ source = TRUE
  /\ type = AGENT_DEFAULT
  /\ password = NULL
  /\ keys = <<>>
  /\ request = NoRequest
  /\ data = NoData
  /\ env = InheritedSock
  /\ stdout = <<>>
  /\ stderr = <<>>
  /\ signals = <<>>
  /\ exec = NoExec
  /\ fs = {}
  /\ agent = "unset"
  /\ connAttempts = 0
  /\ openConns = 0
  /\ assuan = <<>>
  /\ fingerprints = <<>>
  /\ fgpt = <<>>
  /\ results = <<>>
  /\ unlockRet = NoStatus
  /\ termios \in Termios
  /\ old_termios = {}
  /\ ttyWrites = 0
  /\ hooks = {}
  /\ exitStatus = NoStatus


(* ---------------------- option parsing (main) -------------------------- *)

\* a usage that exits 0 whatever the stream
usageAlwaysSuccess(out) ==
  /\ IF out = "stdout"
     THEN stdout' = Append(stdout, <<"usage">>) /\ stderr' = stderr
     ELSE stderr' = Append(stderr, <<"usage">>) /\ stdout' = stdout
  /\ ExitPlain(EXIT_SUCCESS)

\* usage(out): the text goes to `out`, exit status by which stream it was
usage(out) ==
  /\ IF out = "stdout"
     THEN stdout' = Append(stdout, <<"usage">>) /\ stderr' = stderr
     ELSE stderr' = Append(stderr, <<"usage">>) /\ stdout' = stdout
  /\ ExitPlain(IF out = "stderr" THEN EXIT_FAILURE ELSE EXIT_SUCCESS)

\* the verb an option character selects
OptVerb(c) ==
  CASE c = "a" -> ACTION_FORCE_ADD
    [] c = "k" -> ACTION_CLEAR
    [] c = "K" -> ACTION_KILL
    [] c = "l" -> ACTION_LIST
    [] c = "u" -> ACTION_UNLOCK
    [] c = "p" -> ACTION_SH_PRINT
    [] c = "f" -> ACTION_FISH_PRINT

\* the value of `source` after an option character
OptSource(c, src) == IF c \in {"k", "K"} THEN FALSE ELSE src

\* one turn of the while loop with getopt_long returning an option
ParseOption ==
  /\ pc = "getopt"
  /\ nopts < MaxOpts
  /\ \E o \in Options :
       LET c == o[1]  optarg == o[2] IN
       /\ opt' = c
       /\ nopts' = nopts + 1
       /\ CASE c = "h" ->
                 /\ usage("stdout")
                 /\ UNCHANGED << verb, source, type, password >>
            [] c = "v" ->
                 /\ stdout' = Append(stdout, <<"version">>)
                 /\ ExitPlain(0)
                 /\ UNCHANGED << verb, source, type, password, stderr >>
            [] c \in {"a", "k", "K", "l", "u", "p", "f"} ->
                 /\ verb' = OptVerb(c)
                 /\ source' = OptSource(c, source)
                 /\ password' = IF c = "u" THEN optarg ELSE password
                 /\ UNCHANGED << pc, type, outVars, ttyVars, exitStatus >>
            [] c = "t" ->
                 /\ type' = lookup_agent(optarg)
                 /\ IF lookup_agent(optarg) = LAST_AGENT
                    THEN /\ stderr' = Append(stderr, <<"unknown agent">>)
                         /\ ExitPlain(EXIT_FAILURE)
                    ELSE UNCHANGED << pc, stderr, ttyVars, exitStatus >>
                 /\ UNCHANGED << verb, source, password, stdout >>
            [] OTHER ->
                 /\ usage("stderr")
                 /\ UNCHANGED << verb, source, type, password >>
  /\ UNCHANGED << keys, request, data, env, signals, exec, fs, gpgVars >>

\* getopt_long returns -1: what is left of argv are the key names
EndOfOptions ==
  /\ pc = "getopt"
  /\ \E ks \in SeqsUpTo(KeyNames, MaxKeys) : keys' = ks
  /\ opt' = "-1"
  /\ pc' = "get_agent"
  /\ UNCHANGED << nopts, verb, source, type, password, request, data, env,
                  outVars, signals, exec, fs, gpgVars, ttyVars, exitStatus >>

(* ------------------------- get_agent ----------------------------------- *)

\* the replies envoy_agent can bring back for a request
Replies(start) ==
  { [pid |-> p, type |-> t, status |-> st,
     sock |-> IF st \in {ENVOY_RUNNING, ENVOY_STARTED} THEN sk ELSE "",
     gpg  |-> IF st \in {ENVOY_RUNNING, ENVOY_STARTED} /\ t = AGENT_GPG_AGENT
              THEN GpgInfo ELSE ""] :
      p \in Pids, t \in {AGENT_SSH_AGENT, AGENT_GPG_AGENT}, sk \in Socks,
      st \in (IF start THEN {ENVOY_RUNNING, ENVOY_STARTED, ENVOY_FAILED, ENVOY_BADUSER}
                       ELSE {ENVOY_RUNNING, ENVOY_STOPPED, ENVOY_FAILED, ENVOY_BADUSER}) }

\* get_agent's switch: the statuses that end the client with an error
StatusFatalNoFailed(status) == status = ENVOY_BADUSER
StatusFatal(status) == status \in {ENVOY_FAILED, ENVOY_BADUSER}

\* main: if (data.status == ENVOY_STOPPED) return 0
StoppedNever(status) == FALSE
StoppedReturn(status) == status = ENVOY_STOPPED

\* get_agent(&data, type, source) and the ENVOY_STOPPED test that follows it
get_agent ==
  /\ pc = "get_agent"
  /\ request' = [kind |-> type, start |-> source, sent |-> TRUE]
  /\ \/ /\ data' = data
        /\ stderr' = Append(stderr, <<"failed to fetch agent">>)
        /\ ExitPlain(EXIT_FAILURE)
     \/ \E r \in Replies(source) :
          /\ data' = r
          /\ IF StatusFatal(r.status)
             THEN /\ stderr' = Append(stderr,
                        IF r.status = ENVOY_FAILED
                        THEN <<"agent failed to start, check envoyd's log">>
                        ELSE <<"connection rejected, user is unauthorized to use this agent">>)
                  /\ ExitPlain(EXIT_FAILURE)
             ELSE IF StoppedReturn(r.status)
             THEN /\ stderr' = stderr
                  /\ ExitPlain(0)
             ELSE /\ pc' = "source_env"
                  /\ UNCHANGED << stderr, ttyVars, exitStatus >>
  /\ UNCHANGED << parseVars, env, stdout, signals, exec, fs, gpgVars >>


(* ------------------- source_env and the print step --------------------- *)

\* source_env with a connection that could not be opened: agent is NULL and
\* is handed to gpg_update_tty and gpg_close unchecked. What that does is not
\* defined: the process dies of SIGSEGV or the calls do nothing.
NullAgentOutcomes == {"segv", "ignored"}

\* setenv("SSH_AUTH_SOCK", data->sock, true)
SetenvKeep(old, d) == old
Setenv(old, d) == d.sock

\* if (source) source_env(&data)
source_env ==
  /\ pc = "source_env"
  /\ IF ~source
     THEN /\ pc' = "print"
          /\ UNCHANGED << env, connAttempts, assuan, exitStatus >>
     ELSE IF data.type # AGENT_GPG_AGENT
     THEN /\ env' = Setenv(env, data)
          /\ pc' = "print"
          /\ UNCHANGED << connAttempts, assuan, exitStatus >>
     ELSE /\ connAttempts' = connAttempts + 1
          /\ \/ /\ assuan' = Append(assuan, <<"UPDATESTARTUPTTY">>)
                /\ env' = Setenv(env, data)
                /\ pc' = "print"
                /\ UNCHANGED exitStatus
             \/ \E o \in NullAgentOutcomes :
                  IF o = "segv"
                  THEN /\ pc' = "crashed"
                       /\ exitStatus' = SEGV_STATUS
                       /\ UNCHANGED << env, assuan >>
                  ELSE /\ env' = Setenv(env, data)
                       /\ pc' = "print"
                       /\ UNCHANGED << assuan, exitStatus >>
  /\ UNCHANGED << parseVars, request, data, outVars, signals, exec, fs, agent,
                  openConns, fingerprints, fgpt, results, unlockRet, ttyVars >>

\* print_sh_env: the lines written, in order
print_sh_env(d) ==
  (IF d.type = AGENT_GPG_AGENT THEN << <<"export", "GPG_AGENT_INFO", d.gpg>> >> ELSE <<>>)
  \o << <<"export", "SSH_AUTH_SOCK", d.sock>>, <<"export", "SSH_AGENT_PID", d.pid>> >>

\* print_fish_env: the lines written, in order
print_fish_env(d) ==
  (IF d.type = AGENT_GPG_AGENT THEN << <<"set -x", "GPG_AGENT_INFO", d.gpg>> >> ELSE <<>>)
  \o << <<"set -x", "SSH_AUTH_SOCK", d.sock>>, <<"set -x", "SSH_AGENT_PID", d.pid>> >>

\* if (verb == ACTION_SH_PRINT) ... else if (verb == ACTION_FISH_PRINT) ...
print_env ==
  /\ pc = "print"
  /\ stdout' = CASE verb = ACTION_SH_PRINT   -> stdout \o print_sh_env(data)
                 [] verb = ACTION_FISH_PRINT -> stdout \o print_fish_env(data)
                 [] OTHER                    -> stdout
  /\ pc' = "dispatch"
  /\ UNCHANGED << parseVars, request, data, env, stderr, signals, exec, fs,
                  gpgVars, ttyVars, exitStatus >>

(* ----------------------------- add_keys -------------------------------- *)

\* a get_key_path that never looks at the filesystem
get_key_path_home(home, fragment, existing) == <<home, ".ssh", fragment>>

\* get_key_path: the fragment itself when access() finds it, else <home>/.ssh/<fragment>
get_key_path(home, fragment, existing) ==
  IF fragment \in existing THEN <<fragment>> ELSE <<home, ".ssh", fragment>>

\* the argv add_keys builds
add_keys_args(ks, home, existing) ==
  << <<"/usr/bin/ssh-add">>, <<"--">> >>
    \o [i \in 1..Len(ks) |-> get_key_path(home, ks[i], existing)]

\* the key names main hands to add_keys: &argv[optind], argc - optind
KeysOnlyForAdd(v, ks) == IF v = ACTION_FORCE_ADD THEN ks ELSE <<>>
KeysPassed(v, ks) == ks

\* add_keys(&argv[optind], argc - optind): never returns
add_keys ==
  \E pwd \in {NULL, PwDir}, existing \in SUBSET {keys[i] : i \in 1..Len(keys)},
     launched \in BOOLEAN :
    IF pwd = NULL
    THEN /\ stderr' = Append(stderr, <<"failed to lookup passwd entry">>)
         /\ ExitPlain(EXIT_FAILURE)
         /\ UNCHANGED << exec, fs >>
    ELSE /\ fs' = existing
         /\ exec' = [file |-> "/usr/bin/ssh-add",
                     argv |-> add_keys_args(KeysPassed(verb, keys), pwd, existing),
                     ok |-> launched]
         /\ IF launched
            THEN /\ pc' = "execd"
                 /\ UNCHANGED << stderr, ttyVars, exitStatus >>
            ELSE /\ stderr' = Append(stderr, <<"failed to launch ssh-add">>)
                 /\ ExitPlain(EXIT_FAILURE)


(* ------------------------ the switch in main --------------------------- *)

dispatchFrame == << parseVars, request, data, env, stdout >>

\* case ACTION_NONE: break when the agent already runs or is a gpg-agent
NoneStopsOnlyRunning(d) == d.status = ENVOY_RUNNING
NoneStops(d) == d.status = ENVOY_RUNNING \/ d.type = AGENT_GPG_AGENT

\* case ACTION_NONE, falling through to add_keys unless it breaks
DispatchNone ==
  /\ pc = "dispatch" /\ verb = ACTION_NONE
  /\ IF NoneStops(data)
     THEN /\ ExitPlain(0)
          /\ UNCHANGED << stderr, exec, fs >>
     ELSE add_keys
  /\ UNCHANGED << dispatchFrame, signals, gpgVars >>

\* case ACTION_FORCE_ADD
DispatchForceAdd ==
  /\ pc = "dispatch" /\ verb = ACTION_FORCE_ADD
  /\ add_keys
  /\ UNCHANGED << dispatchFrame, signals, gpgVars >>

\* case ACTION_CLEAR: the test on data.type
ClearAnyAgent(d) == TRUE
ClearSupported(d) == d.type = AGENT_GPG_AGENT

\* the kill() call of a verb
SignalSwapped(v, d) == << d.pid, IF v = ACTION_CLEAR THEN SIGTERM ELSE SIGHUP >>
Signal(v, d) == << d.pid, IF v = ACTION_CLEAR THEN SIGHUP ELSE SIGTERM >>

\* case ACTION_CLEAR
DispatchClear ==
  /\ pc = "dispatch" /\ verb = ACTION_CLEAR
  /\ IF ClearSupported(data)
     THEN /\ signals' = Append(signals, Signal(verb, data))
          /\ stderr' = stderr
          /\ ExitPlain(0)
     ELSE /\ stderr' = Append(stderr, <<"only gpg-agent supports this operation">>)
          /\ signals' = signals
          /\ ExitPlain(EXIT_FAILURE)
  /\ UNCHANGED << dispatchFrame, exec, fs, gpgVars >>

\* case ACTION_KILL
DispatchKill ==
  /\ pc = "dispatch" /\ verb = ACTION_KILL
  /\ signals' = Append(signals, Signal(verb, data))
  /\ ExitPlain(0)
  /\ UNCHANGED << dispatchFrame, stderr, exec, fs, gpgVars >>

\* case ACTION_LIST: execlp("ssh-add", "ssh-add", "-l", NULL)
DispatchList ==
  /\ pc = "dispatch" /\ verb = ACTION_LIST
  /\ \E launched \in BOOLEAN :
       /\ exec' = [file |-> "ssh-add", argv |-> << <<"ssh-add">>, <<"-l">> >>,
                   ok |-> launched]
       /\ IF launched
          THEN /\ pc' = "execd"
               /\ UNCHANGED << stderr, ttyVars, exitStatus >>
          ELSE /\ stderr' = Append(stderr, <<"failed to launch ssh-add">>)
               /\ ExitPlain(EXIT_FAILURE)
  /\ UNCHANGED << dispatchFrame, signals, fs, gpgVars >>

\* default: break
DefaultLikeNone(d) == NoneStops(d)
DefaultBreaks(d) == TRUE

\* default: break, then return 0 (the two print verbs end here)
DispatchDefault ==
  /\ pc = "dispatch" /\ verb \in {ACTION_SH_PRINT, ACTION_FISH_PRINT}
  /\ IF DefaultBreaks(data)
     THEN /\ ExitPlain(0)
          /\ UNCHANGED << stderr, exec, fs >>
     ELSE add_keys
  /\ UNCHANGED << dispatchFrame, signals, gpgVars >>

(* ------------------------------ unlock --------------------------------- *)

\* main after unlock() returned: the value is dropped, break, return 0
MainAfterUnlock(ret) == 0

unlockFrame == << opt, nopts, verb, source, type, keys, request, data, env,
                  signals, exec, fs >>

\* case ACTION_UNLOCK: unlock() up to the password test
unlock_connect ==
  /\ pc = "dispatch" /\ verb = ACTION_UNLOCK
  /\ connAttempts' = connAttempts + 1
  /\ \/ /\ agent' = "conn"
        /\ openConns' = openConns + 1
        /\ pc' = IF password = NULL THEN "read_password" ELSE "keyinfo"
        /\ UNCHANGED << stderr, ttyVars, exitStatus >>
     \/ /\ agent' = NULL
        /\ openConns' = openConns
        /\ stderr' = Append(stderr, <<"failed to open connection to gpg-agent">>)
        /\ ExitPlain(EXIT_FAILURE)
  /\ UNCHANGED << unlockFrame, password, stdout, assuan, fingerprints, fgpt,
                  results, unlockRet >>

\* atexit(term_cleanup)
RegisterNothing(hk) == hk
RegisterCleanup(hk) == hk \cup {"term_cleanup"}

\* new_termios.c_lflag &= ~ECHO
NoEcho(t) == t \ {ECHO}

\* read_password up to the getline call
read_password ==
  /\ pc = "read_password"
  /\ stdout' = Append(stdout, <<"Password: ">>)
  /\ \/ \* tcgetattr fails
        /\ stderr' = Append(stderr, <<"failed to get terminal attributes">>)
        /\ ExitPlain(EXIT_FAILURE)
     \/ \* tcgetattr succeeds, tcsetattr fails
        /\ old_termios' = termios
        /\ hooks' = RegisterCleanup(hooks)
        /\ stderr' = Append(stderr, <<"failed to set terminal attributes">>)
        /\ Exit(EXIT_FAILURE, hooks', termios, ttyWrites)
     \/ \* echo is off
        /\ old_termios' = termios
        /\ hooks' = RegisterCleanup(hooks)
        /\ termios' = NoEcho(termios)
        /\ ttyWrites' = ttyWrites + 1
        /\ pc' = "getline"
        /\ UNCHANGED << stderr, exitStatus >>
  /\ UNCHANGED << unlockFrame, password, gpgVars >>

\* the tcsetattr after getline
KeepsNoEcho(cur, old) == cur
RestoreTermios(cur, old) == old

\* read_password from getline on
read_password_getline ==
  /\ pc = "getline"
  /\ \/ /\ stderr' = Append(stderr, <<"failed to read password">>)
        /\ ExitPlain(EXIT_FAILURE)
        /\ UNCHANGED << password, stdout >>
     \/ /\ password' = "typed"
        /\ termios' = RestoreTermios(termios, old_termios)
        /\ ttyWrites' = ttyWrites + 1
        /\ stdout' = Append(stdout, <<"\n">>)
        /\ pc' = "keyinfo"
        /\ UNCHANGED << stderr, old_termios, hooks, exitStatus >>
  /\ UNCHANGED << unlockFrame, gpgVars >>

\* fgpt = gpg_keyinfo(agent)
gpg_keyinfo ==
  /\ pc = "keyinfo"
  /\ \E list \in SeqsUpTo(Fingerprints, MaxFgpt) :
       /\ fingerprints' = list
       /\ fgpt' = list
  /\ assuan' = Append(assuan, <<"KEYINFO --list">>)
  /\ pc' = "preset"
  /\ UNCHANGED << unlockFrame, password, outVars, agent, connAttempts, openConns,
                  results, unlockRet, ttyVars, exitStatus >>

\* one turn of the for loop: gpg_preset_passphrase for the head of the list
unlock_preset ==
  /\ pc = "preset"
  /\ fgpt # <<>>
  /\ assuan' = Append(assuan, <<"PRESET_PASSPHRASE", Head(fgpt), password>>)
  /\ \/ /\ results' = Append(results, "OK")
        /\ fgpt' = Tail(fgpt)
        /\ UNCHANGED << pc, stderr, unlockRet, ttyVars, exitStatus >>
     \/ /\ results' = Append(results, "ERR")
        /\ stderr' = Append(stderr, <<"failed to unlock key", Head(fgpt)>>)
        /\ unlockRet' = 1
        /\ fgpt' = fgpt
        /\ ExitPlain(MainAfterUnlock(1))
  /\ UNCHANGED << unlockFrame, password, stdout, agent, connAttempts, openConns,
                  fingerprints >>

\* the list is at its end: gpg_close(agent), return 0, and main returns
unlock_return ==
  /\ pc = "preset"
  /\ fgpt = <<>>
  /\ agent' = "closed"
  /\ openConns' = openConns - 1
  /\ unlockRet' = 0
  /\ ExitPlain(MainAfterUnlock(0))
  /\ UNCHANGED << unlockFrame, password, outVars, connAttempts, assuan,
                  fingerprints, fgpt, results >>

(* --------------------------- specification ----------------------------- *)

Next ==
  \/ ParseOption
  \/ EndOfOptions
  \/ get_agent
  \/ source_env
  \/ print_env
  \/ DispatchNone
  \/ DispatchForceAdd
  \/ DispatchClear
  \/ DispatchKill
  \/ DispatchList
  \/ DispatchDefault
  \/ unlock_connect
  \/ read_password
  \/ read_password_getline
  \/ gpg_keyinfo
  \/ unlock_preset
  \/ unlock_return

Spec == Init /\ [][Next]_vars


(* ------------------------------ claims --------------------------------- *)

Answered == data.status \in {ENVOY_RUNNING, ENVOY_STARTED}
Prompted == \E i \in 1..Len(stdout) : stdout[i][1] = "Password: "
KeyinfoDone == \E i \in 1..Len(assuan) : assuan[i][1] = "KEYINFO --list"
PresetCmds == SelectSeq(assuan, LAMBDA c : c[1] = "PRESET_PASSPHRASE")
\* the fingerprints PRESET_PASSPHRASE was sent for, in the order sent
PresetFprs == [i \in 1..Len(PresetCmds) |-> PresetCmds[i][2]]

\* C1: the request carries start = false exactly when the dispatched verb is
\* Clear or Kill, and start = true for every other verb.
C1_StartFollowsVerb ==
  request.sent => (request.start = FALSE <=> verb \in {ACTION_CLEAR, ACTION_KILL})

\* C2: once the reply says Failed or BadUser the client has exited non-zero and
\* has done nothing else: no environment change, no stdout output, no gpg-agent
\* connection, no signal, no exec.
C2_FatalStatusAborts ==
  data.status \in {ENVOY_FAILED, ENVOY_BADUSER} =>
    /\ pc = "exited"
    /\ exitStatus # 0
    /\ env = InheritedSock
    /\ Len(stdout) = 0
    /\ connAttempts = 0
    /\ Len(signals) = 0
    /\ exec.file = NULL

C2_Witness ==
  /\ data.status = ENVOY_FAILED
  /\ verb = ACTION_UNLOCK
  /\ pc = "exited"

\* C3: at most one signal is sent; it is sent only for Kill (SIGTERM) or Clear
\* (SIGHUP), to the pid of the reply, and only when the reply says Running or
\* Started.
C3_SignalDiscipline ==
  /\ Len(signals) <= 1
  /\ \A i \in 1..Len(signals) :
       /\ verb \in {ACTION_KILL, ACTION_CLEAR}
       /\ signals[i][1] = data.pid
       /\ signals[i][2] = (IF verb = ACTION_KILL THEN SIGTERM ELSE SIGHUP)
       /\ Answered

C3_Witness ==
  /\ Len(signals) = 1
  /\ signals[1] = <<9000, SIGTERM>>
  /\ data.pid = 9000
  /\ pc = "exited"

\* C4: once the reply says Stopped the client has exited 0 and has attempted
\* nothing: no signal, no exec, no gpg-agent connection, no environment change.
C4_StoppedExitsQuietly ==
  data.status = ENVOY_STOPPED =>
    /\ pc = "exited"
    /\ exitStatus = 0
    /\ Len(signals) = 0
    /\ exec.file = NULL
    /\ connAttempts = 0
    /\ env = InheritedSock

C4_Witness ==
  /\ data.status = ENVOY_STOPPED
  /\ verb = ACTION_KILL
  /\ pc = "exited"
  /\ exitStatus = 0

\* C5: Unlock against an agent that is not a gpg-agent (the reply being Running
\* or Started, so that the verb is dispatched) ends non-zero without a
\* gpg-agent connection, without a passphrase prompt and without any Assuan
\* command.
C5_UnlockRequiresGpgAgent ==
  (verb = ACTION_UNLOCK /\ Answered /\ data.type # AGENT_GPG_AGENT /\ pc \in Final) =>
    /\ pc = "exited"
    /\ exitStatus # 0
    /\ connAttempts = 0
    /\ ~Prompted
    /\ Len(assuan) = 0

\* C6: Clear with a reply of Running or Started: against a gpg-agent SIGHUP goes
\* to data.pid and the client exits 0; against any other agent no signal is sent
\* and the client exits non-zero.
C6_ClearOnlyGpgAgent ==
  (verb = ACTION_CLEAR /\ Answered /\ pc \in Final) =>
    /\ pc = "exited"
    /\ IF data.type = AGENT_GPG_AGENT
       THEN signals = << <<data.pid, SIGHUP>> >> /\ exitStatus = 0
       ELSE Len(signals) = 0 /\ exitStatus # 0

C6_Witness ==
  /\ verb = ACTION_CLEAR
  /\ data.type = AGENT_GPG_AGENT
  /\ Len(signals) = 1
  /\ pc = "exited"

\* C7: when unlock is over, every fingerprint KEYINFO --list returned has got
\* exactly one PRESET_PASSPHRASE, in list order, whether or not an earlier one
\* failed.
C7_EveryFingerprintPreset ==
  (pc \in Final /\ KeyinfoDone) => PresetFprs = fingerprints

\* C8: if PRESET_PASSPHRASE failed for some fingerprint the exit status is 1,
\* and it is 0 only if every preset succeeded.
C8_PresetFailureExitsOne ==
  (pc \in Final /\ KeyinfoDone) =>
    /\ (\E i \in 1..Len(results) : results[i] = "ERR") => exitStatus = 1
    /\ exitStatus = 0 => \A i \in 1..Len(results) : results[i] = "OK"

\* C9: once the termios snapshot was taken, the terminal attributes at process
\* exit equal the snapshot, on every exit path.
C9_TerminalRestored ==
  (old_termios # {} /\ pc \in Final) => termios = old_termios

C9_Witness ==
  /\ pc = "exited"
  /\ ECHO \in old_termios
  /\ ttyWrites >= 2
  /\ stderr # <<>>
  /\ termios = old_termios

\* C10: verb None with a reply of Running or Started: if the agent is Running or
\* is a gpg-agent the client exits 0 without exec; otherwise it execs
\* /usr/bin/ssh-add with SSH_AUTH_SOCK set to data.sock.
C10_DefaultContinuation ==
  (verb = ACTION_NONE /\ Answered /\ pc \in Final) =>
    IF data.status = ENVOY_RUNNING \/ data.type = AGENT_GPG_AGENT
    THEN pc = "exited" /\ exitStatus = 0 /\ exec.file = NULL
    ELSE exec.file = "/usr/bin/ssh-add" /\ env = data.sock


Printed == \E i \in 1..Len(stdout) : Len(stdout[i]) = 3 /\ stdout[i][2] = "SSH_AUTH_SOCK"
PrintVerb == verb \in {ACTION_SH_PRINT, ACTION_FISH_PRINT}

\* C11 as claimed: ShPrint or FishPrint, once the export lines are out, goes on
\* as verb None does: exec of ssh-add for a Started ssh-agent, exit 0 without
\* exec for a Running agent or a gpg-agent.
C11_PrintThenDefaultContinuation ==
  (PrintVerb /\ Answered /\ Printed /\ pc \in Final) =>
    IF data.status = ENVOY_STARTED /\ data.type = AGENT_SSH_AGENT
    THEN exec.file = "/usr/bin/ssh-add"
    ELSE pc = "exited" /\ exitStatus = 0 /\ exec.file = NULL

\* C11 as amended: ShPrint or FishPrint, once the export lines are out, exits 0
\* without any exec, whatever the status and type of the reply.
C11_PrintThenExit ==
  (PrintVerb /\ Answered /\ Printed /\ pc \in Final) =>
    pc = "exited" /\ exitStatus = 0 /\ exec.file = NULL

C11_Witness ==
  /\ verb = ACTION_SH_PRINT
  /\ data.status = ENVOY_STARTED
  /\ data.type = AGENT_SSH_AGENT
  /\ Printed
  /\ pc = "exited"


\* C12: when getopt hands back --help, --version, an unknown flag or an unknown
\* --agent name, the client ends there, inside option parsing, without a request
\* to the supervisor: help and version with status 0, the other two non-zero.
C12_ParsingEndsWithoutRequest ==
  /\ opt \in {"h", "v"} =>
       pc = "exited" /\ exitStatus = 0 /\ ~request.sent /\ data = NoData
  /\ (opt = "?" \/ (opt = "t" /\ type = LAST_AGENT)) =>
       pc = "exited" /\ exitStatus # 0 /\ ~request.sent /\ data = NoData

C12_Witness ==
  /\ opt = "?"
  /\ nopts = 2
  /\ verb = ACTION_KILL
  /\ pc = "exited"
  /\ exitStatus = EXIT_FAILURE

\* C13: at the end of the client SSH_AUTH_SOCK is data.sock if and only if the
\* request was sent with start = true and the reply said Running or Started;
\* with start = false the environment is never changed.
C13_EnvOnlyWhenStart ==
  /\ (request.sent /\ ~request.start) => env = InheritedSock
  /\ ~request.sent => env = InheritedSock
  /\ pc \in Final => (env = data.sock <=> (request.sent /\ request.start /\ Answered))


\* source_env asked for a connection and did not get one
SourceEnvConnFailed ==
  /\ source /\ Answered /\ data.type = AGENT_GPG_AGENT
  /\ pc # "source_env"
  /\ \A i \in 1..Len(assuan) : assuan[i][1] # "UPDATESTARTUPTTY"
\* unlock asked for a connection and did not get one
UnlockConnFailed == agent = NULL

\* C14: no gpg-agent connection outlives its step: none is open when the print
\* step or the switch is reached, and none is open once unlock has returned,
\* whether all presets succeeded or one returned ERR.
C14_ConnectionsClosed ==
  /\ pc \in {"print", "dispatch"} => openConns = 0
  /\ unlockRet # NoStatus => openConns = 0

\* C15: whenever a connection to the gpg-agent socket fails, in source_env or
\* in unlock, the client prints a diagnostic and exits non-zero, sends no Assuan
\* command and goes on to no later action.
C15_ConnectFailureIsFatal ==
  (SourceEnvConnFailed \/ UnlockConnFailed) =>
    /\ pc = "exited"
    /\ exitStatus # 0
    /\ Len(stderr) > 0
    /\ Len(assuan) = 0

PasswdFailed ==
  \E i \in 1..Len(stderr) : stderr[i] = <<"failed to lookup passwd entry">>
\* the argv the key names on the command line resolve to
ResolvedArgv ==
  << <<"/usr/bin/ssh-add">>, <<"--">> >>
    \o [i \in 1..Len(keys) |->
          IF keys[i] \in fs THEN <<keys[i]>> ELSE <<PwDir, ".ssh", keys[i]>>]

\* C16: for ForceAdd the argv of the exec is /usr/bin/ssh-add, --, then one path
\* per key argument in the same order, the key itself when it exists as a path
\* and <pw_dir>/.ssh/<key> otherwise; when the passwd lookup fails the client
\* exits non-zero without exec.
C16_ForceAddArgv ==
  /\ (verb = ACTION_FORCE_ADD /\ exec.file # NULL) =>
       exec.file = "/usr/bin/ssh-add" /\ exec.argv = ResolvedArgv
  /\ (verb = ACTION_FORCE_ADD /\ PasswdFailed) =>
       pc = "exited" /\ exitStatus # 0 /\ exec.file = NULL

C16_Witness ==
  /\ verb = ACTION_FORCE_ADD
  /\ keys = <<"id_rsa", "extra_key">>
  /\ fs = {"id_rsa"}
  /\ exec.argv = << <<"/usr/bin/ssh-add">>, <<"--">>, <<"id_rsa">>,
                    <<"/home/alice", ".ssh", "extra_key">> >>
  /\ pc = "execd"

\* C17 as claimed: the ssh-add exec'd by verb None has the argv
\* /usr/bin/ssh-add, -- and nothing else, whatever the key arguments.
C17_DefaultExecHasNoKeys ==
  (verb = ACTION_NONE /\ exec.file # NULL) =>
    exec.argv = << <<"/usr/bin/ssh-add">>, <<"--">> >>

\* C17 as amended: the ssh-add exec'd by verb None gets the key arguments of
\* the command line, resolved as for --add and in the same order; its argv is
\* /usr/bin/ssh-add, -- alone only when no key argument was given.
C17_DefaultExecPassesKeys ==
  (verb = ACTION_NONE /\ exec.file # NULL) =>
    /\ exec.file = "/usr/bin/ssh-add"
    /\ Len(exec.argv) = 2 + Len(keys)
    /\ exec.argv = ResolvedArgv

C17_Witness ==
  /\ verb = ACTION_NONE
  /\ Len(keys) = 2
  /\ Len(exec.argv) = 4
  /\ pc = "execd"

TcgetattrFailed ==
  \E i \in 1..Len(stderr) : stderr[i] = <<"failed to get terminal attributes">>

\* C19: the terminal attributes are written only by an unlock that prompted and
\* took the snapshot: the exit hook is registered only with a snapshot, and with
\* another verb, a passphrase given on the command line or a failed tcgetattr
\* nothing is ever written to the terminal, not even at exit.
C19_TerminalWrittenOnlyInPrompt ==
  /\ hooks # {} => old_termios # {}
  /\ ttyWrites > 0 =>
       verb = ACTION_UNLOCK /\ Prompted /\ old_termios # {} /\ hooks # {}
  /\ (verb # ACTION_UNLOCK \/ password = "hunter2" \/ TcgetattrFailed) =>
       ttyWrites = 0 /\ hooks = {}

C19_Witness ==
  /\ verb = ACTION_UNLOCK
  /\ Prompted
  /\ TcgetattrFailed
  /\ pc = "exited"
  /\ ttyWrites = 0

====
